---- MODULE Spec2Model ----
(***************************************************************************)
(* Model of examples/update_camera_database.py: the XIMEA catalogue crawl  *)
(* (fetch_part_numbers and its two nested thread pools), the record        *)
(* extractor (extract_part_numbers_and_chroma) and the sorter              *)
(* (sort_by_family_and_part_number).                                       *)
(*                                                                         *)
(* Text is a sequence of one-character strings, so that lower(), strip(),  *)
(* split(), `in` and string comparison are computed, not assumed.          *)
(* A Python dict is a sequence of [k, v] entries with pairwise distinct    *)
(* keys, in insertion order.  An optional value (None or a text) is <<>>   *)
(* or <<text>>.                                                            *)
(***************************************************************************)
EXTENDS Integers, Sequences, FiniteSets, TLC

(***************************************************************************)
(* State                                                                   *)
(***************************************************************************)

VARIABLES
    pc,                      \* where fetch_part_numbers stands
    root,                    \* how the fetch of the root page ended
    sub,                     \* per category: the state of its fetch_subcategories future
    subcategory_links,       \* per category: the links its future returned
    yielded,                 \* categories the outer as_completed has handed out
    cur,                     \* the category whose inner pool is open, or 0
    product,                 \* per category: the states of its scrape_linked_page futures
    yielded3,                \* <<category, i>> the inner as_completed has handed out
    printed,                 \* the futures whose exception the coordinator printed
    advanced,                \* progress.advance calls
    lock,                    \* the module's lock: its holder <<category, i>>, or None
    part_numbers_data,       \* the shared dict
    ex_pc,                   \* where extract_part_numbers_and_chroma stands
    pathways,                \* soup.find_all("a", class_="pathway"), as texts
    part_number,             \* the block's part_number
    chroma,                  \* the block's chroma
    temp_part_numbers_data,  \* the page's batch
    log,                     \* progress.log calls
    ndivs,                   \* blocks taken from product_divs so far
    nrows,                   \* rows taken from the block so far
    sort_pc,                 \* where sort_json_file stands
    sorted_dict              \* what sort_by_family_and_part_number returned

(***************************************************************************)
(* Python str primitives                                                   *)
(***************************************************************************)

\* The printable ASCII characters in code point order, 32 .. 126 (the double
\* quote, 34, and the backtick, 96, are written as words).
Ascii ==
    << " ", "!", "QUOTE", "#", "$", "%", "&", "'", "(", ")", "*", "+", ",", "-", ".", "/",
       "0", "1", "2", "3", "4", "5", "6", "7", "8", "9", ":", ";", "<", "=", ">", "?",
       "@", "A", "B", "C", "D", "E", "F", "G", "H", "I", "J", "K", "L", "M", "N", "O",
       "P", "Q", "R", "S", "T", "U", "V", "W", "X", "Y", "Z", "[", "\\", "]", "^", "_",
       "BACKTICK", "a", "b", "c", "d", "e", "f", "g", "h", "i", "j", "k", "l", "m", "n", "o",
       "p", "q", "r", "s", "t", "u", "v", "w", "x", "y", "z", "{", "|", "}", "~" >>

\* ord(c)
CodePoint(c) ==
    IF c = "\t" THEN 9
    ELSE IF c = "\n" THEN 10
    ELSE 31 + (CHOOSE i \in 1..Len(Ascii) : Ascii[i] = c)

\* str.isspace() of one character
IsSpace(c) == c \in {" ", "\t", "\n"}

\* str.lower() of one character: A..Z (65..90) map to a..z (97..122)
LowerChar(c) ==
    IF IsSpace(c) THEN c
    ELSE LET cp == CodePoint(c)
         IN  IF cp >= 65 /\ cp <= 90 THEN Ascii[cp + 32 - 31] ELSE c

\* s.lower()
Lower(s) == [i \in 1..Len(s) |-> LowerChar(s[i])]

\* word in s
Contains(s, word) ==
    \E i \in 0..(Len(s) - Len(word)) :
        \A j \in 1..Len(word) : s[i + j] = word[j]

\* s.strip()
Strip(s) ==
    LET nonSpace == {i \in 1..Len(s) : ~IsSpace(s[i])}
    IN  IF nonSpace = {} THEN <<>>
        ELSE LET lo == CHOOSE i \in nonSpace : \A j \in nonSpace : i <= j
                 hi == CHOOSE i \in nonSpace : \A j \in nonSpace : i >= j
             IN  SubSeq(s, lo, hi)

\* s.split(): the maximal runs of non-whitespace characters, in order
RECURSIVE Split(_)
Split(s) ==
    LET nonSpace == {i \in 1..Len(s) : ~IsSpace(s[i])}
    IN  IF nonSpace = {} THEN <<>>
        ELSE LET lo == CHOOSE i \in nonSpace : \A j \in nonSpace : i <= j
                 ends == {i \in lo..Len(s) : i = Len(s) \/ IsSpace(s[i + 1])}
                 hi == CHOOSE i \in ends : \A j \in ends : i <= j
             IN  <<SubSeq(s, lo, hi)>> \o Split(SubSeq(s, hi + 1, Len(s)))

\* a < b for two str, as Python compares them: by code point, a proper prefix first
RECURSIVE StrLess(_, _)
StrLess(a, b) ==
    IF b = <<>> THEN FALSE
    ELSE IF a = <<>> THEN TRUE
    ELSE IF a[1] = b[1] THEN StrLess(Tail(a), Tail(b))
    ELSE CodePoint(a[1]) < CodePoint(b[1])

(***************************************************************************)
(* Python dict primitives                                                  *)
(***************************************************************************)

None == <<>>
Some(x) == <<x>>

Keys(d) == {d[i].k : i \in 1..Len(d)}

Get(d, key) == d[CHOOSE i \in 1..Len(d) : d[i].k = key].v

\* d.setdefault(key, value): an existing key keeps its value
SetItemKeepsFirst(d, key, value) ==
    IF key \in Keys(d) THEN d ELSE Append(d, [k |-> key, v |-> value])

\* d[key] = value: an existing key keeps its place, a new key goes last
SetItem(d, key, value) ==
    IF key \in Keys(d)
    THEN [i \in 1..Len(d) |-> IF d[i].k = key THEN [k |-> key, v |-> value] ELSE d[i]]
    ELSE Append(d, [k |-> key, v |-> value])

\* d.update(other)
RECURSIVE Update(_, _)
Update(d, other) ==
    IF other = <<>> THEN d
    ELSE Update(SetItem(d, Head(other).k, Head(other).v), Tail(other))

(***************************************************************************)
(* Record extractor: extract_part_numbers_and_chroma                       *)
(*                                                                         *)
(* A product page (the soup) is [pathways, divs]: the texts of its         *)
(* <a class="pathway"> elements and its <div class="product-type"> blocks. *)
(* A block is the sequence of its <tr> rows; a row is [caption, cells]:    *)
(* the text of its param_caption span (None when it has none) and the      *)
(* texts of its <td> cells.                                                *)
(***************************************************************************)

PartNumberLabel == <<"P", "a", "r", "t", " ", "N", "u", "m", "b", "e", "r">>
ChromaLabel == <<"C", "h", "r", "o", "m", "a">>
ColorWord == <<"c", "o", "l", "o", "r">>
MonochromeWord == <<"m", "o", "n", "o", "c", "h", "r", "o", "m", "e">>
NirWord == <<"n", "i", "r">>

\* the list of line 162
KnownFamilies ==
    { <<"x", "i", "C">>, <<"x", "i", "Q">>, <<"x", "i", "S", "p", "e", "c">>,
      <<"x", "i", "X">>, <<"x", "i", "B">>, <<"x", "i", "B", "-", "6", "4">>,
      <<"x", "i", "R", "A", "Y">> }

\* Python truthiness of an optional str: neither None nor ""
Truthy(opt) == opt # None /\ opt[1] # <<>>

\* One iteration of `for row in rows` (lines 142-155) on the block's locals.
\* row.find_all("td")[1] raises IndexError when the row has fewer than two cells.
RowStep(number, chroma_text, row) ==
    IF row.caption # None /\ Contains(row.caption[1], PartNumberLabel)
    THEN IF Len(row.cells) < 2
         THEN [part_number |-> number, chroma |-> chroma_text, raised |-> TRUE]
         ELSE [part_number |-> Some(Strip(row.cells[2])), chroma |-> chroma_text,
               raised |-> FALSE]
    ELSE IF row.caption # None /\ Contains(row.caption[1], ChromaLabel)
    THEN IF Len(row.cells) < 2
         THEN [part_number |-> number, chroma |-> chroma_text, raised |-> TRUE]
         ELSE [part_number |-> number, chroma |-> Some(Strip(row.cells[2])),
               raised |-> FALSE]
    ELSE [part_number |-> number, chroma |-> chroma_text, raised |-> FALSE]

\* `for row in rows` over a whole block, from part_number = chroma = None
RECURSIVE ScanRows(_, _, _)
ScanRows(number, chroma_text, rows) ==
    IF rows = <<>>
    THEN [part_number |-> number, chroma |-> chroma_text, raised |-> FALSE]
    ELSE LET r == RowStep(number, chroma_text, Head(rows))
         IN  IF r.raised THEN r ELSE ScanRows(r.part_number, r.chroma, Tail(rows))

\* Lines 158-161: [family, raised]; split()[-1] raises IndexError on a second
\* pathway whose text holds no token.
CameraFamily(crumbs) ==
    IF Len(crumbs) >= 2
    THEN LET tokens == Split(crumbs[2])
         IN  IF tokens = <<>>
             THEN [family |-> None, raised |-> TRUE]
             ELSE [family |-> Some(tokens[Len(tokens)]), raised |-> FALSE]
    ELSE [family |-> None, raised |-> FALSE]

\* A filter that only asks for a family
FamilyPresent(camera_family) == camera_family # None

\* Lines 162-164: the family filter lets the block through
FamilyKnown(camera_family) ==
    camera_family # None /\ camera_family[1] \in KnownFamilies

\* `is not None` in place of truthiness
CompleteNotNone(number, chroma_text) == number # None /\ chroma_text # None

\* Line 165: the completeness test
Complete(number, chroma_text) == Truthy(number) /\ Truthy(chroma_text)

\* The two rules in the other order
CameraTypeGrayFirst(chroma_text) ==
    IF Contains(Lower(chroma_text), MonochromeWord) \/ Contains(Lower(chroma_text), NirWord)
    THEN Some("gray")
    ELSE IF Contains(Lower(chroma_text), ColorWord) THEN Some("rgb")
    ELSE None

\* Lines 166-172: Some(cameraType), or None for an unknown chroma
CameraType(chroma_text) ==
    IF Contains(Lower(chroma_text), ColorWord) THEN Some("rgb")
    ELSE IF Contains(Lower(chroma_text), MonochromeWord) \/ Contains(Lower(chroma_text), NirWord)
    THEN Some("gray")
    ELSE None

\* Lines 173-178: the record stored under the part number
Record(camera_type, camera_family) ==
    [cameraType |-> camera_type, cameraFamily |-> camera_family,
     mosaicWidth |-> 0, mosaicHeight |-> 0]

\* Lines 157-178: the rest of the loop body once the rows are scanned:
\* the new [temp, log, raised].
DivEnd(temp, messages, number, chroma_text, crumbs) ==
    LET fam == CameraFamily(crumbs)
    IN  IF fam.raised THEN [temp |-> temp, log |-> messages, raised |-> TRUE]
        ELSE IF ~FamilyKnown(fam.family)
        THEN [temp |-> temp,
              log |-> Append(messages, [msg |-> "Skipping camera family",
                                   camera |-> number]),
              raised |-> FALSE]
        ELSE IF Complete(number, chroma_text)
        THEN LET type == CameraType(chroma_text[1])
             IN  IF type = None
                 THEN [temp |-> temp,
                       log |-> Append(messages, [msg |-> "Skipping unknown chroma",
                                            camera |-> number]),
                       raised |-> FALSE]
                 ELSE [temp |-> SetItem(temp, number[1],
                                        Record(type[1], fam.family[1])),
                       log |-> messages, raised |-> FALSE]
        ELSE [temp |-> temp, log |-> messages, raised |-> FALSE]

\* Lines 134-178: `for div in product_divs` over a whole page
RECURSIVE ScanDivs(_, _, _, _)
ScanDivs(temp, messages, divs, crumbs) ==
    IF divs = <<>> THEN [temp |-> temp, log |-> messages, raised |-> FALSE]
    ELSE LET rows == ScanRows(None, None, Head(divs))
         IN  IF rows.raised THEN [temp |-> temp, log |-> messages, raised |-> TRUE]
             ELSE LET d == DivEnd(temp, messages, rows.part_number, rows.chroma, crumbs)
                  IN  IF d.raised THEN d
                      ELSE ScanDivs(d.temp, d.log, Tail(divs), crumbs)

\* The batch a page yields before the merge of lines 181-182
Extract(page) == ScanDivs(<<>>, <<>>, page.divs, page.pathways)

(***************************************************************************)
(* The site the crawl runs against                                         *)
(***************************************************************************)

A1 == <<"A", "1">>
B2 == <<"B", "2">>
C3 == <<"C", "3">>
Home == <<"H", "o", "m", "e">>
ColorText == <<"C", "o", "l", "o", "r">>
MonochromeText == <<" ", "M", "o", "n", "o", "c", "h", "r", "o", "m", "e", "\n">>
NirText == <<"N", "I", "R", " ", "e", "n", "h", "a", "n", "c", "e", "d">>
PolarizedText == <<"P", "o", "l", "a", "r", "i", "z", "e", "d">>

PartNumberRow(text) == [caption |-> Some(PartNumberLabel), cells |-> <<PartNumberLabel, text>>]
ChromaRow(text) == [caption |-> Some(ChromaLabel), cells |-> <<ChromaLabel, text>>]

\* The product pages a category may link to, by page number:
\*   1  an xiC page: camera A1, Color
\*   2  an xiQ page: camera B2, Monochrome; camera A1, NIR enhanced (the part number
\*      of page 1); a block with a blank part number; a block with chroma Polarized
\*   3  a "Sensors" page with a part number and a chroma
\*   4  an xiC page: camera C3, Color, then a block whose Part Number row has no
\*      value cell
Pages ==
    << [pathways |-> <<Home, <<"U", "S", "B", " ", "x", "i", "C">>>>,
        divs |-> << <<PartNumberRow(A1), ChromaRow(ColorText)>> >>],
       [pathways |-> <<Home, <<"x", "i", "Q">>>>,
        divs |-> << <<PartNumberRow(B2), ChromaRow(MonochromeText)>>,
                    <<ChromaRow(NirText), PartNumberRow(A1)>>,
                    <<PartNumberRow(<<" ", " ">>), ChromaRow(ColorText)>>,
                    <<PartNumberRow(C3), ChromaRow(PolarizedText)>> >>],
       [pathways |-> <<Home, <<"S", "e", "n", "s", "o", "r", "s">>>>,
        divs |-> << <<PartNumberRow(B2), ChromaRow(ColorText)>> >>],
       [pathways |-> <<Home, <<"x", "i", "C">>>>,
        divs |-> << <<PartNumberRow(C3), ChromaRow(ColorText)>>,
                    <<[caption |-> Some(PartNumberLabel), cells |-> <<PartNumberLabel>>]>> >>] >>

PageIds == 1..Len(Pages)

\* What scrape_linked_page computes from each page once it is fetched: page p's
\* [temp, log, raised] is Extracted[p]
RECURSIVE ExtractFirst(_)
ExtractFirst(n) == IF n = 0 THEN <<>> ELSE Append(ExtractFirst(n - 1), Extract(Pages[n]))
Extracted == ExtractFirst(Len(Pages))

\* At most this many categories on the root page
MaxCats == 2
\* At most this many product links on a category page
MaxLinks == 2

RECURSIVE SeqsUpTo(_, _)
SeqsUpTo(S, n) ==
    IF n = 0 THEN {<<>>}
    ELSE LET shorter == SeqsUpTo(S, n - 1)
         IN  shorter \cup {Append(q, x) : q \in {r \in shorter : Len(r) = n - 1}, x \in S}

\* The link lists a category page may hold
LinkLists == SeqsUpTo(PageIds, MaxLinks)

crawlVars == <<pc, root, sub, subcategory_links, yielded, cur, product, yielded3, printed,
               advanced>>
sharedVars == <<lock, part_numbers_data>>
exVars == <<ex_pc, pathways, part_number, chroma, temp_part_numbers_data, log, ndivs, nrows>>
sortVars == <<sort_pc, sorted_dict>>
vars == <<crawlVars, sharedVars, exVars, sortVars>>

\* ThreadPoolExecutor(max_workers=10), the pool of the categories
max_workers == 10
\* ThreadPoolExecutor(max_workers=10), the pool of one category's product pages
inner_max_workers == 10

Cats == 1..Len(sub)
\* The scrape_linked_page futures submitted so far
Tasks == UNION {{<<c, i>> : i \in 1..Len(product[c])} : c \in Cats}

\* The page a product future fetches, and the batch it extracts from it
PageOf(c, i) == subcategory_links[c][i]
TempOf(c, i) == Extracted[PageOf(c, i)].temp

SubFinished(c) == sub[c] \in {"ok", "error"}
ProductFinished(c, i) == product[c][i] \in {"done", "fetch_error", "extract_error"}

\* The state the extractor and the sorter are left in while the crawl runs
ExIdle ==
    /\ ex_pc = "idle" /\ pathways = <<>> /\ part_number = None /\ chroma = None
    /\ temp_part_numbers_data = <<>> /\ log = <<>> /\ ndivs = 0 /\ nrows = 0
SortIdle == sort_pc = "idle" /\ sorted_dict = <<>>

CrawlIdle ==
    /\ pc = "idle" /\ root = "unfetched" /\ sub = <<>> /\ subcategory_links = <<>> /\ yielded = {}
    /\ cur = 0 /\ product = <<>> /\ yielded3 = {} /\ printed = {} /\ advanced = 0

(***************************************************************************)
(* The crawl: fetch_part_numbers                                           *)
(***************************************************************************)

Init ==
    /\ pc = "root" /\ root = "unfetched"
    /\ sub = <<>> /\ subcategory_links = <<>> /\ yielded = {}
    /\ cur = 0 /\ product = <<>> /\ yielded3 = {} /\ printed = {} /\ advanced = 0
    /\ lock = None /\ part_numbers_data = <<>>
    /\ ExIdle /\ SortIdle

\* Lines 82-97: the root page is fetched and yields n category links; the dict is
\* created and one fetch_subcategories future per link is submitted.
FetchMainCategories(n) ==
    /\ pc = "root"
    /\ root' = "ok"
    /\ pc' = "outer"
    /\ sub' = [c \in 1..n |-> "queued"]
    /\ subcategory_links' = [c \in 1..n |-> <<>>]
    /\ product' = [c \in 1..n |-> <<>>]
    /\ part_numbers_data' = <<>>
    /\ UNCHANGED <<yielded, cur, yielded3, printed, advanced, lock, exVars, sortVars>>

\* The root failure caught and taken for a page without categories
FetchMainCategoriesRaisesCaught ==
    /\ pc = "root"
    /\ root' = "error"
    /\ pc' = "outer"
    /\ UNCHANGED <<sub, subcategory_links, yielded, cur, product, yielded3, printed,
                   advanced, sharedVars, exVars, sortVars>>

\* Lines 43-44 under line 82: requests.get or raise_for_status raises, and nothing
\* in fetch_part_numbers catches it.
FetchMainCategoriesRaises ==
    /\ pc = "root"
    /\ root' = "error"
    /\ pc' = "raised"
    /\ UNCHANGED <<sub, subcategory_links, yielded, cur, product, yielded3, printed,
                   advanced, sharedVars, exVars, sortVars>>

\* A pool that starts every future it is given at once
SubMayStartUncapped(c) ==
    /\ sub[c] = "queued"
    /\ \A d \in 1..(c - 1) : sub[d] # "queued"

\* A worker of the outer pool is free for the oldest queued future
SubMayStart(c) ==
    /\ sub[c] = "queued"
    /\ \A d \in 1..(c - 1) : sub[d] # "queued"
    /\ Cardinality({d \in Cats : sub[d] = "running"}) < max_workers

\* A worker of the outer pool takes fetch_subcategories(link_url, link)
SubStart(c) ==
    /\ SubMayStart(c)
    /\ sub' = [sub EXCEPT ![c] = "running"]
    /\ UNCHANGED <<root, pc, subcategory_links, yielded, cur, product, yielded3, printed,
                   advanced, sharedVars, exVars, sortVars>>

\* Lines 62-68: the category page is fetched and the future finishes with its
\* links (they are drawn in OuterYieldResult, where result() hands them over)
SubReturns(c) ==
    /\ sub[c] = "running"
    /\ sub' = [sub EXCEPT ![c] = "ok"]
    /\ UNCHANGED <<root, pc, subcategory_links, yielded, cur, product, yielded3, printed,
                   advanced, sharedVars, exVars, sortVars>>

\* Lines 63-64: requests.get or raise_for_status raises inside the future
SubRaises(c) ==
    /\ sub[c] = "running"
    /\ sub' = [sub EXCEPT ![c] = "error"]
    /\ UNCHANGED <<root, pc, subcategory_links, yielded, cur, product, yielded3, printed,
                   advanced, sharedVars, exVars, sortVars>>

\* Lines 99-108: as_completed hands out a finished category future whose result()
\* returns the links of its page; the inner pool is opened and one future per
\* product link is submitted.
OuterYieldResult(c, links) ==
    /\ pc = "outer"
    /\ c \notin yielded
    /\ sub[c] = "ok"
    /\ yielded' = yielded \cup {c}
    /\ subcategory_links' = [subcategory_links EXCEPT ![c] = links]
    /\ product' = [product EXCEPT ![c] = [i \in 1..Len(links) |-> "queued"]]
    /\ cur' = c
    /\ pc' = "inner"
    /\ UNCHANGED <<root, sub, yielded3, printed, advanced, sharedVars, exVars, sortVars>>

\* The outer `except` left out: the exception of a category future leaves
\* fetch_part_numbers
AfterSubExceptionUncaught == "raised"

\* Lines 114-116: where the coordinator stands after the exception of a category
\* future was caught and printed
AfterSubException == "outer"

\* Lines 99-101, 114-116: as_completed hands out a finished category future whose
\* result() raises; the exception is printed and the bar advances.
OuterYieldException(c) ==
    /\ pc = "outer"
    /\ c \notin yielded
    /\ sub[c] = "error"
    /\ yielded' = yielded \cup {c}
    /\ pc' = AfterSubException
    /\ printed' = IF AfterSubException = "outer" THEN printed \cup {<<c, 0>>} ELSE printed
    /\ advanced' = IF AfterSubException = "outer" THEN advanced + 1 ELSE advanced
    /\ UNCHANGED <<root, sub, subcategory_links, cur, product, yielded3, sharedVars, exVars,
                   sortVars>>

\* A worker of the category's inner pool is free for its oldest queued future
ProductMayStart(c, i) ==
    /\ product[c][i] = "queued"
    /\ \A j \in 1..(i - 1) : product[c][j] # "queued"
    /\ Cardinality({j \in 1..Len(product[c]) : product[c][j] \in
                        {"fetching", "ready", "locked", "updated"}}) < inner_max_workers

\* A worker of the inner pool takes scrape_linked_page(...)
ProductStart(c, i) ==
    /\ ProductMayStart(c, i)
    /\ product' = [product EXCEPT ![c][i] = "fetching"]
    /\ UNCHANGED <<root, pc, sub, subcategory_links, yielded, cur, yielded3, printed, advanced,
                   sharedVars, exVars, sortVars>>

\* Lines 198-199: requests.get or raise_for_status raises inside the future
ProductFetchRaises(c, i) ==
    /\ product[c][i] = "fetching"
    /\ product' = [product EXCEPT ![c][i] = "fetch_error"]
    /\ UNCHANGED <<root, pc, sub, subcategory_links, yielded, cur, yielded3, printed, advanced,
                   sharedVars, exVars, sortVars>>

\* The blocks' records stored straight into the shared dict, without a batch of
\* the task's own: what was stored before an IndexError stays
ProductExtractWritesThrough(c, i) ==
    /\ product[c][i] = "fetching"
    /\ product' = [product EXCEPT ![c][i] =
                       IF Extracted[PageOf(c, i)].raised THEN "extract_error" ELSE "ready"]
    /\ part_numbers_data' =
           IF Extracted[PageOf(c, i)].raised
           THEN Update(part_numbers_data, Extracted[PageOf(c, i)].temp)
           ELSE part_numbers_data
    /\ UNCHANGED <<root, pc, sub, subcategory_links, yielded, cur, yielded3, printed, advanced,
                   lock, exVars, sortVars>>

\* Lines 198-202 and 134-178: the page is fetched and parsed and its blocks are
\* scanned into the task's own batch; an IndexError of the scan ends the future.
ProductExtract(c, i) ==
    /\ product[c][i] = "fetching"
    /\ product' = [product EXCEPT ![c][i] =
                       IF Extracted[PageOf(c, i)].raised THEN "extract_error" ELSE "ready"]
    /\ UNCHANGED <<root, pc, sub, subcategory_links, yielded, cur, yielded3, printed, advanced,
                   sharedVars, exVars, sortVars>>

\* A lock that never blocks
LockNeverHeld == TRUE

\* threading.Lock: acquire() goes through only while nobody holds the lock
LockFree == lock = None

\* `with lock:` put around the whole of scrape_linked_page: the lock is taken
\* while the page is still being fetched
ProductAcquireEarly(c, i) ==
    /\ product[c][i] = "fetching"
    /\ LockFree
    /\ lock' = <<c, i>>
    /\ UNCHANGED <<root, pc, sub, subcategory_links, yielded, cur, product, yielded3, printed,
                   advanced, part_numbers_data, exVars, sortVars>>

\* Line 181: `with lock:` is entered
ProductAcquire(c, i) ==
    /\ product[c][i] = "ready"
    /\ LockFree
    /\ lock' = <<c, i>>
    /\ product' = [product EXCEPT ![c][i] = "locked"]
    /\ UNCHANGED <<root, pc, sub, subcategory_links, yielded, cur, yielded3, printed, advanced,
                   part_numbers_data, exVars, sortVars>>

\* The batch assigned instead of merged
MergeReplace(data, temp) == temp

\* Line 182: part_numbers_data.update(temp_part_numbers_data), one call
Merge(data, temp) == Update(data, temp)

ProductUpdate(c, i) ==
    /\ product[c][i] = "locked"
    /\ part_numbers_data' = Merge(part_numbers_data, TempOf(c, i))
    /\ product' = [product EXCEPT ![c][i] = "updated"]
    /\ UNCHANGED <<root, pc, sub, subcategory_links, yielded, cur, yielded3, printed, advanced,
                   lock, exVars, sortVars>>

\* The lock acquired by hand and not released at the end
ProductReleaseKeepsLock(c, i) ==
    /\ product[c][i] = "updated"
    /\ product' = [product EXCEPT ![c][i] = "done"]
    /\ UNCHANGED <<root, pc, sub, subcategory_links, yielded, cur, yielded3, printed, advanced,
                   lock, part_numbers_data, exVars, sortVars>>

\* Line 182, leaving `with lock:`; the future is finished
ProductRelease(c, i) ==
    /\ product[c][i] = "updated"
    /\ lock' = None
    /\ product' = [product EXCEPT ![c][i] = "done"]
    /\ UNCHANGED <<root, pc, sub, subcategory_links, yielded, cur, yielded3, printed, advanced,
                   part_numbers_data, exVars, sortVars>>

\* Lines 109-111: the inner as_completed hands out a finished product future whose
\* result() returns
InnerYieldResult(c, i) ==
    /\ pc = "inner" /\ cur = c
    /\ <<c, i>> \notin yielded3
    /\ product[c][i] = "done"
    /\ yielded3' = yielded3 \cup {<<c, i>>}
    /\ UNCHANGED <<root, pc, sub, subcategory_links, yielded, cur, product, printed, advanced,
                   sharedVars, exVars, sortVars>>

\* The inner `except` left out: the exception of a product future leaves
\* fetch_part_numbers
AfterProductExceptionUncaught == "raised"

\* Lines 112-113: where the coordinator stands after the exception of a product
\* future was caught and printed
AfterProductException == "inner"

\* Lines 109-113: the inner as_completed hands out a finished product future whose
\* result() raises; the exception is printed
InnerYieldException(c, i) ==
    /\ pc = "inner" /\ cur = c
    /\ <<c, i>> \notin yielded3
    /\ product[c][i] \in {"fetch_error", "extract_error"}
    /\ yielded3' = yielded3 \cup {<<c, i>>}
    /\ pc' = AfterProductException
    /\ printed' = IF AfterProductException = "inner" THEN printed \cup {<<c, i>>}
                  ELSE printed
    /\ UNCHANGED <<root, sub, subcategory_links, yielded, cur, product, advanced, sharedVars,
                   exVars, sortVars>>

\* The inner pool left without waiting for its futures
InnerJoinedNoWait(c) == TRUE

\* Lines 103-116: the inner as_completed is exhausted once it has handed out every
\* future of the category, and the `with` block then waits for the pool's workers
InnerJoined(c) ==
    /\ \A i \in 1..Len(product[c]) : <<c, i>> \in yielded3
    /\ \A i \in 1..Len(product[c]) : ProductFinished(c, i)

\* Lines 109, 116: the inner loop and the inner `with` are left; the bar advances
InnerClose(c) ==
    /\ pc = "inner" /\ cur = c
    /\ InnerJoined(c)
    /\ pc' = "outer"
    /\ cur' = 0
    /\ advanced' = advanced + 1
    /\ UNCHANGED <<root, sub, subcategory_links, yielded, product, yielded3, printed, sharedVars,
                   exVars, sortVars>>

\* Lines 95-118: the outer as_completed is exhausted once it has handed out every
\* category future, and the outer `with` then waits for the pool's workers
OuterJoined ==
    /\ yielded = Cats
    /\ \A c \in Cats : SubFinished(c)

\* Line 118: return part_numbers_data
Return ==
    /\ pc = "outer"
    /\ OuterJoined
    /\ pc' = "returned"
    /\ UNCHANGED <<root, sub, subcategory_links, yielded, cur, product, yielded3, printed,
                   advanced, sharedVars, exVars, sortVars>>

Next ==
    \/ \E n \in 0..MaxCats : FetchMainCategories(n)
    \/ FetchMainCategoriesRaises
    \/ \E c \in Cats : SubStart(c)
    \/ \E c \in Cats : SubReturns(c)
    \/ \E c \in Cats : SubRaises(c)
    \/ \E c \in Cats, links \in LinkLists : OuterYieldResult(c, links)
    \/ \E c \in Cats : OuterYieldException(c)
    \/ \E t \in Tasks : ProductStart(t[1], t[2])
    \/ \E t \in Tasks : ProductFetchRaises(t[1], t[2])
    \/ \E t \in Tasks : ProductExtract(t[1], t[2])
    \/ \E t \in Tasks : ProductAcquire(t[1], t[2])
    \/ \E t \in Tasks : ProductUpdate(t[1], t[2])
    \/ \E t \in Tasks : ProductRelease(t[1], t[2])
    \/ \E t \in Tasks : InnerYieldResult(t[1], t[2])
    \/ \E t \in Tasks : InnerYieldException(t[1], t[2])
    \/ \E c \in Cats : InnerClose(c)
    \/ Return

Spec == Init /\ [][Next]_vars

TypeOK ==
    /\ pc \in {"root", "outer", "inner", "returned", "raised"}
    /\ cur \in 0..MaxCats
    /\ Len(sub) <= MaxCats
    /\ \A c \in Cats : Len(product[c]) <= MaxLinks

\* The crawl under fair scheduling: the interpreter runs a thread that can take a
\* step, and every request that was made is answered or fails, so that the crawl
\* does not stand still while one of its steps is possible.
LiveSpec == Spec /\ WF_vars(Next)

(***************************************************************************)
(* The crawl against sites large enough to fill a pool: a wide site, whose *)
(* root page links to more categories than the outer pool has workers,     *)
(* the first category page linking to one product page (page 1) and the   *)
(* others to none; and a deep site of one category whose page links to     *)
(* more product pages than the inner pool has workers.  Every page is      *)
(* served, and a pool's requests are answered in the order in which they   *)
(* were made; the product pages of the deep site are page 4, whose         *)
(* extraction raises.                                                      *)
(***************************************************************************)

\* The categories of the wide site
PoolCats == 11
\* The product links of the deep site's category
PoolLinks == 11

\* The link list of the page of category c on the site of n categories
PoolLinkLists(n, c) ==
    IF n = 1 THEN {[i \in 1..PoolLinks |-> 4]}
    ELSE IF c = 1 THEN {<<1>>}
    ELSE {<<>>}

\* The site has answered every earlier request of the pool
SubAnswered(c) == \A d \in 1..(c - 1) : sub[d] # "running"
ProductAnswered(c, i) == \A j \in 1..(i - 1) : product[c][j] # "fetching"

PoolNext ==
    \/ \E n \in {1, PoolCats} : FetchMainCategories(n)
    \/ \E c \in Cats : SubStart(c)
    \/ \E c \in Cats : SubAnswered(c) /\ SubReturns(c)
    \/ \E c \in Cats : \E links \in PoolLinkLists(Len(sub), c) : OuterYieldResult(c, links)
    \/ \E t \in Tasks : ProductStart(t[1], t[2])
    \/ \E t \in Tasks : ProductAnswered(t[1], t[2]) /\ ProductExtract(t[1], t[2])
    \/ \E t \in Tasks : ProductAcquire(t[1], t[2])
    \/ \E t \in Tasks : ProductUpdate(t[1], t[2])
    \/ \E t \in Tasks : ProductRelease(t[1], t[2])
    \/ \E t \in Tasks : InnerYieldResult(t[1], t[2])
    \/ \E t \in Tasks : InnerYieldException(t[1], t[2])
    \/ \E c \in Cats : InnerClose(c)
    \/ Return

PoolSpec == Init /\ [][PoolNext]_vars

(***************************************************************************)
(* The extractor on its own: extract_part_numbers_and_chroma run on one    *)
(* page, block by block and row by row, the rows drawn as they are read    *)
(***************************************************************************)

\* At most this many product-type blocks on the page
MaxDivs == 2
\* At most this many rows in a block
MaxRows == 2

BothText == <<"M", "o", "n", "o", "c", "h", "r", "o", "m", "e", "/", "C", "O", "L", "O", "R">>
SensorLabel == <<"S", "e", "n", "s", "o", "r">>

\* The texts a Chroma value cell may hold
ChromaTexts == {ColorText, MonochromeText, NirText, PolarizedText, BothText, <<>>}
\* The texts a Part Number value cell may hold
PartNumberTexts == {A1, <<" ", "B", "2", " ">>, <<" ", " ">>}

\* The rows a block may hold
Rows ==
    {PartNumberRow(t) : t \in PartNumberTexts}
    \cup {ChromaRow(t) : t \in ChromaTexts}
    \cup { [caption |-> Some(PartNumberLabel), cells |-> <<PartNumberLabel>>],
           [caption |-> Some(ChromaLabel), cells |-> <<>>],
           [caption |-> Some(SensorLabel), cells |-> <<SensorLabel, A1>>],
           [caption |-> None, cells |-> <<A1, ColorText>>] }

\* The pathway texts a page may hold
PathwayLists ==
    { <<>>,
      <<<<"x", "i", "C">>>>,
      <<Home, <<"U", "S", "B", " ", "x", "i", "C">>>>,
      <<Home, <<"x", "i", "B", "-", "6", "4", "\n">>, <<"x", "i", "Q">>>>,
      <<Home, <<"S", "e", "n", "s", "o", "r", "s">>>>,
      <<Home, <<"x", "i", "C", " ", "s", "e", "n", "s", "o", "r", "s">>>>,
      <<Home, <<" ">>>> }

\* What the shared dict may hold when the page's task starts
EarlierData ==
    { <<>>,
      <<[k |-> A1, v |-> Record("gray", <<"x", "i", "X">>)],
        [k |-> C3, v |-> Record("rgb", <<"x", "i", "X">>)]>> }

ExtractInit ==
    /\ CrawlIdle /\ SortIdle
    /\ lock = None
    /\ part_numbers_data \in EarlierData
    /\ pathways \in PathwayLists
    /\ ex_pc = "loop"
    /\ part_number = None /\ chroma = None
    /\ temp_part_numbers_data = <<>>
    /\ log = <<>>
    /\ ndivs = 0 /\ nrows = 0

\* Lines 136-140: the next block is taken and its locals are reset
ExNextDiv ==
    /\ ex_pc = "loop"
    /\ ndivs < MaxDivs
    /\ ex_pc' = "rows"
    /\ ndivs' = ndivs + 1
    /\ nrows' = 0
    /\ part_number' = None
    /\ chroma' = None
    /\ UNCHANGED <<pathways, temp_part_numbers_data, log, crawlVars, sharedVars, sortVars>>

\* Lines 142-155: one row of the block
ExRow(row) ==
    /\ ex_pc = "rows"
    /\ nrows < MaxRows
    /\ LET r == RowStep(part_number, chroma, row)
       IN  /\ ex_pc' = IF r.raised THEN "raised" ELSE "rows"
           /\ part_number' = r.part_number
           /\ chroma' = r.chroma
    /\ nrows' = nrows + 1
    /\ UNCHANGED <<pathways, temp_part_numbers_data, log, ndivs, crawlVars, sharedVars,
                   sortVars>>

\* Lines 157-178: the rows are exhausted; family filter, completeness test,
\* chroma classification and the store into the batch
ExDivEnd ==
    /\ ex_pc = "rows"
    /\ LET d == DivEnd(temp_part_numbers_data, log, part_number, chroma, pathways)
       IN  /\ ex_pc' = IF d.raised THEN "raised" ELSE "loop"
           /\ temp_part_numbers_data' = d.temp
           /\ log' = d.log
    /\ UNCHANGED <<pathways, part_number, chroma, ndivs, nrows, crawlVars, sharedVars,
                   sortVars>>

\* Lines 180-182: the blocks are exhausted; the batch goes into the shared dict
\* under the lock
ExMerge ==
    /\ ex_pc = "loop"
    /\ LockFree
    /\ part_numbers_data' = Merge(part_numbers_data, temp_part_numbers_data)
    /\ ex_pc' = "done"
    /\ UNCHANGED <<pathways, part_number, chroma, temp_part_numbers_data, log, ndivs,
                   nrows, lock, crawlVars, sortVars>>

ExtractNext ==
    \/ ExNextDiv
    \/ \E row \in Rows : ExRow(row)
    \/ ExDivEnd
    \/ ExMerge

ExtractSpec == ExtractInit /\ [][ExtractNext]_vars

(***************************************************************************)
(* The sorter: sort_by_family_and_part_number, as sort_json_file runs it   *)
(* on the content of a file                                                *)
(***************************************************************************)

\* key=lambda x: x[0]
KeyLessByPartNumber(a, b) == StrLess(a.k, b.k)

\* key=lambda x: x[1]['cameraFamily']
KeyLessByFamily(a, b) == StrLess(a.v.cameraFamily, b.v.cameraFamily)

\* The key of line 214, (x[1]['cameraFamily'], x[0]), compared as Python compares
\* two tuples of str: a's key < b's key
KeyLess(a, b) ==
    IF a.v.cameraFamily # b.v.cameraFamily
    THEN StrLess(a.v.cameraFamily, b.v.cameraFamily)
    ELSE StrLess(a.k, b.k)

\* One item put into an already sorted list, behind the items it is not less than
\* (sorted() is stable)
RECURSIVE Insert(_, _)
Insert(sorted_data, item) ==
    IF sorted_data = <<>> THEN <<item>>
    ELSE IF KeyLess(item, Head(sorted_data)) THEN <<item>> \o sorted_data
    ELSE <<Head(sorted_data)>> \o Insert(Tail(sorted_data), item)

\* Line 214: sorted(part_numbers_data.items(), key=...)
RECURSIVE Sorted(_)
Sorted(items) ==
    IF items = <<>> THEN <<>>
    ELSE Insert(Sorted(SubSeq(items, 1, Len(items) - 1)), items[Len(items)])

\* Lines 214-216: the items are sorted and put into a new dict in that order
sort_by_family_and_part_number(data) == Update(<<>>, Sorted(data))

\* At most this many entries in the file
MaxEntries == 3

\* The part numbers and the families a file may hold
SortKeys == {A1, B2, C3, <<"A">>}
SortFamilies == {<<"x", "i", "B">>, <<"x", "i", "B", "-", "6", "4">>, <<"x", "i", "C">>}

\* The dicts json.loads may return: entries with pairwise distinct keys, in any order
Contents ==
    {d \in SeqsUpTo([k : SortKeys, v : {Record("rgb", f) : f \in SortFamilies}], MaxEntries) :
        \A i, j \in 1..Len(d) : i # j => d[i].k # d[j].k}

SortInit ==
    /\ CrawlIdle /\ ExIdle
    /\ lock = None
    /\ part_numbers_data \in Contents
    /\ sort_pc = "loaded"
    /\ sorted_dict = <<>>

\* Line 235: sorted_content = sort_by_family_and_part_number(content)
SortJsonFile ==
    /\ sort_pc = "loaded"
    /\ sorted_dict' = sort_by_family_and_part_number(part_numbers_data)
    /\ sort_pc' = "sorted"
    /\ UNCHANGED <<crawlVars, sharedVars, exVars>>

SortNext == SortJsonFile

SortSpec == SortInit /\ [][SortNext]_vars

(***************************************************************************)
(* Properties of the crawl (specification Spec)                            *)
(***************************************************************************)

Status(t) == product[t[1]][t[2]]
Batch(t) == TempOf(t[1], t[2])
Failed(t) == Status(t) \in {"fetch_error", "extract_error"}
\* The pages whose batch has gone into the shared dict
Merged == {t \in Tasks : Status(t) \in {"updated", "done"}}

\* C1: product-page fault isolation.  Once the fetch of a product page has failed,
\* the crawl still does not raise; and when it returns, the failure has been
\* printed and every product page, of the same and of every other category, whose
\* fetch and extraction did not fail has each part number of its batch in the
\* returned dict, under a record emitted for that part number by such a page (a
\* part number has one entry, so of two pages emitting it one record stays).
ProductFaultIsolation ==
    (\E t \in Tasks : Status(t) = "fetch_error") =>
        /\ pc # "raised"
        /\ pc = "returned" =>
            /\ \A t \in Tasks : Status(t) = "fetch_error" => t \in printed
            /\ \A t \in Tasks : ~Failed(t) =>
                \A k \in Keys(Batch(t)) :
                    /\ k \in Keys(part_numbers_data)
                    /\ \E u \in Tasks :
                        /\ ~Failed(u)
                        /\ k \in Keys(Batch(u))
                        /\ Get(part_numbers_data, k) = Get(Batch(u), k)

\* C1's case: the crawl has returned; a product fetch failed, a page of the same
\* category and a page of another category gave records.
ProductFaultIsolationWitness ==
    /\ pc = "returned"
    /\ \E t, u, w \in Tasks :
        /\ Status(t) = "fetch_error"
        /\ u[1] = t[1] /\ Status(u) = "done" /\ Batch(u) # <<>>
        /\ w[1] # t[1] /\ Status(w) = "done" /\ Batch(w) # <<>>

\* C2: a root failure is fatal.  When the fetch of the root page has failed,
\* fetch_part_numbers has raised: it never returns a dict, no category future and
\* no product future exists, and nothing was printed in its place.
RootFailureFatal ==
    root = "error" =>
        /\ pc = "raised"
        /\ sub = <<>> /\ product = <<>> /\ Tasks = {}
        /\ yielded = {} /\ printed = {}
        /\ part_numbers_data = <<>>

\* C2's case: the root fetch has failed.
RootFailureFatalWitness == root = "error" /\ pc = "raised"

\* C3: category-page fault isolation.  A category whose fetch failed never has a
\* product future; its failure does not make the crawl raise; and when the crawl
\* returns, every category whose fetch succeeded has one product future per link
\* of its page, each finished and handed out by the inner as_completed.
CategoryFaultIsolation ==
    /\ \A c \in Cats : sub[c] = "error" => product[c] = <<>>
    /\ (\E c \in Cats : sub[c] = "error") => pc # "raised"
    /\ pc = "returned" =>
        \A c \in Cats : sub[c] = "ok" =>
            /\ c \in yielded
            /\ Len(product[c]) = Len(subcategory_links[c])
            /\ \A i \in 1..Len(subcategory_links[c]) :
                ProductFinished(c, i) /\ <<c, i>> \in yielded3

\* C3's case: the crawl has returned; one category failed and was printed, a
\* sibling had all its links processed.
CategoryFaultIsolationWitness ==
    /\ pc = "returned"
    /\ \E c, d \in Cats :
        /\ sub[c] = "error" /\ <<c, 0>> \in printed
        /\ sub[d] = "ok" /\ Len(subcategory_links[d]) = MaxLinks
        /\ \A i \in 1..MaxLinks : Status(<<d, i>>) = "done"

\* C4: full join before return.  When fetch_part_numbers has returned the dict,
\* every category future and every product future is finished and nobody holds
\* the lock; and from then on no step changes the dict.
FullJoinBeforeReturn ==
    /\ [](pc = "returned" =>
            /\ \A c \in Cats : SubFinished(c)
            /\ \A t \in Tasks : ProductFinished(t[1], t[2])
            /\ lock = None)
    /\ [][pc = "returned" => part_numbers_data' = part_numbers_data]_vars

\* C4's case: the crawl has returned after product futures of two categories ran.
FullJoinBeforeReturnWitness ==
    /\ pc = "returned"
    /\ \E t, u \in Tasks : t[1] # u[1] /\ Status(t) = "done" /\ Failed(u)

\* C5: atomic, mutually exclusive batch merge.  At most one task is between
\* acquiring and releasing the lock, and it is the lock's holder; and the dict
\* holds a page's merge wholly or not at all: every part number of a merged page
\* is in the dict, and every entry of the dict is an entry of a merged page's batch.
AtomicExclusiveMerge ==
    /\ Cardinality({t \in Tasks : Status(t) \in {"locked", "updated"}}) <= 1
    /\ \A t \in Tasks : Status(t) \in {"locked", "updated"} => lock = t
    /\ \A t \in Merged : Keys(Batch(t)) \subseteq Keys(part_numbers_data)
    /\ \A k \in Keys(part_numbers_data) :
        \E t \in Merged :
            k \in Keys(Batch(t)) /\ Get(part_numbers_data, k) = Get(Batch(t), k)

\* C5's case: a task has merged a batch of two records and still holds the lock
\* while another task of the category waits for it.
AtomicExclusiveMergeWitness ==
    \E t, u \in Tasks :
        /\ t # u
        /\ Status(t) = "updated" /\ Len(Batch(t)) >= 2
        /\ Status(u) = "ready"

\* C6: no lost updates.  The keys of the returned dict are exactly the part
\* numbers in the batches of the product futures that completed without raising.
NoLostUpdates ==
    pc = "returned" =>
        Keys(part_numbers_data) = UNION {Keys(Batch(t)) : t \in {u \in Tasks : Status(u) = "done"}}

\* C6's case: the crawl has returned; two pages that emit the same part number
\* were merged, and a page that had extracted a record failed before its merge.
NoLostUpdatesWitness ==
    /\ pc = "returned"
    /\ \E t, u, w \in Tasks :
        /\ t # u /\ Status(t) = "done" /\ Status(u) = "done"
        /\ Keys(Batch(t)) \cap Keys(Batch(u)) # {}
        /\ Batch(t) # Batch(u)
        /\ Status(w) = "extract_error" /\ Batch(w) # <<>>

WellFormed(entry) ==
    /\ entry.k # <<>>
    /\ entry.v.cameraFamily \in KnownFamilies
    /\ entry.v.cameraType \in {"rgb", "gray"}
    /\ entry.v.mosaicWidth = 0
    /\ entry.v.mosaicHeight = 0

\* C7: record well-formedness.  In every state of a crawl every entry of the
\* shared dict has a non-empty part number, a family of the known set, a type rgb
\* or gray, and mosaicWidth = mosaicHeight = 0.
RecordsWellFormed ==
    \A i \in 1..Len(part_numbers_data) : WellFormed(part_numbers_data[i])

\* C7's case: in the middle of a crawl the dict holds records while a page with a
\* blank part number and an unknown chroma has been merged and a page of an
\* unknown family is being merged.
RecordsWellFormedWitness ==
    /\ pc = "inner"
    /\ Len(part_numbers_data) >= 2
    /\ \E t, u \in Tasks :
        /\ Status(t) = "done" /\ PageOf(t[1], t[2]) = 2
        /\ Status(u) = "updated" /\ PageOf(u[1], u[2]) = 3

\* The product futures a worker is running: fetching, extracting, waiting for
\* the lock or merging
InFlight == {t \in Tasks : Status(t) \in {"fetching", "ready", "locked", "updated"}}

\* C14 as claimed: the product tasks of a category are scheduled independently of
\* the other categories.  Whenever product tasks of one category are in flight
\* and the fetch of another category has completed, the coordinator can open that
\* other category's pool, so that product tasks of both are in flight together.
BranchesRunTogether ==
    \A c, d \in Cats :
        (c # d /\ sub[c] = "ok" /\ c \notin yielded /\ \E t \in InFlight : t[1] = d) =>
            ENABLED (\E links \in LinkLists : OuterYieldResult(c, links))

\* C14, amended: the inner pools run one after the other.  All product tasks in
\* flight belong to the one category whose pool the coordinator has open, every
\* product future of a category handed out earlier is finished, and a category
\* not yet handed out has no product future; so the tasks that write to the dict
\* at the same time are tasks of one category.
BranchesRunInTurn ==
    /\ \A t \in InFlight : pc = "inner" /\ cur = t[1]
    /\ \A t, u \in InFlight : t[1] = u[1]
    /\ \A t \in Tasks : (pc # "inner" \/ cur # t[1]) => ProductFinished(t[1], t[2])
    /\ \A c \in Cats : c \notin yielded => product[c] = <<>>

\* C14's case: two product tasks of one category are in flight, one merging and
\* one waiting for the lock, while the fetch of the other category has completed
\* and its links wait for the coordinator.
BranchesRunInTurnWitness ==
    \E c, d \in Cats :
        /\ c # d
        /\ sub[c] = "ok" /\ c \notin yielded
        /\ Len(product[d]) = 2
        /\ product[d][1] = "ready" /\ product[d][2] = "updated"

\* C15: lock scope.  The lock's holder is a task whose fetch and extraction are
\* over; a step that changes the dict is the holder's update, taken with the lock
\* held before and after it; the lock is acquired only by a task whose batch is
\* computed; and the step a task takes after its update releases the lock.
LockScope ==
    /\ [](lock # None => (lock \in Tasks /\ Status(lock) \in {"locked", "updated"}))
    /\ [](\A t \in Tasks : Status(t) \in {"queued", "fetching", "ready"} => lock # t)
    /\ [][part_numbers_data' # part_numbers_data =>
            /\ lock # None /\ lock' = lock
            /\ Status(lock) = "locked"
            /\ product'[lock[1]][lock[2]] = "updated"]_vars
    /\ [][(lock = None /\ lock' # None) =>
            /\ lock' \in Tasks
            /\ Status(lock') = "ready"
            /\ part_numbers_data' = part_numbers_data]_vars
    /\ [][\A t \in Tasks :
            (Status(t) = "updated" /\ product'[t[1]][t[2]] # "updated") =>
                lock = t /\ lock' = None /\ part_numbers_data' = part_numbers_data]_vars

\* C15's case: a task holds the lock with its batch of two records merged into
\* the dict while the other task of the category is still fetching its page.
LockScopeWitness ==
    \E t, u \in Tasks :
        /\ lock = t /\ Status(t) = "updated" /\ Len(Batch(t)) >= 2
        /\ Keys(Batch(t)) \subseteq Keys(part_numbers_data)
        /\ Status(u) = "fetching"

\* C19: all or nothing per page.  A step that changes the dict is the one update
\* of a task that holds the lock, and puts the task's whole batch into the dict;
\* the step in which a task fails, and every step while it stands failed, leaves
\* the dict as it is; and no record in the dict is there through a failed task:
\* each entry is an entry of the batch of a task that merged.
AllOrNothing ==
    /\ [][part_numbers_data' # part_numbers_data =>
            \E t \in Tasks :
                /\ Status(t) = "locked" /\ product'[t[1]][t[2]] = "updated"
                /\ \A u \in Tasks \ {t} : product'[u[1]][u[2]] = Status(u)
                /\ \A k \in Keys(Batch(t)) :
                       /\ k \in Keys(part_numbers_data')
                       /\ Get(part_numbers_data', k) = Get(Batch(t), k)]_vars
    /\ [][(\E t \in Tasks : product'[t[1]][t[2]] \in {"fetch_error", "extract_error"}
                              /\ product'[t[1]][t[2]] # Status(t)) =>
            part_numbers_data' = part_numbers_data]_vars
    /\ [](\A k \in Keys(part_numbers_data) :
            \E u \in Tasks :
                /\ Status(u) \in {"updated", "done"}
                /\ k \in Keys(Batch(u))
                /\ Get(part_numbers_data, k) = Get(Batch(u), k))

\* C19's case: the crawl has returned records; a page whose first block gave a
\* valid record and whose second block raised has failed, as has the fetch of
\* another page, and the record of the first block is not in the dict.
AllOrNothingWitness ==
    /\ pc = "returned"
    /\ part_numbers_data # <<>>
    /\ \E t, u \in Tasks :
        /\ Status(t) = "extract_error" /\ Batch(t) # <<>>
        /\ Keys(Batch(t)) \cap Keys(part_numbers_data) = {}
        /\ Status(u) = "fetch_error"

(***************************************************************************)
(* Liveness of the crawl (specification LiveSpec)                          *)
(***************************************************************************)

SubInFlight == {c \in Cats : sub[c] = "running"}
\* The product futures of category c a worker of its inner pool is running
ProductInFlight(c) ==
    {i \in 1..Len(product[c]) : product[c][i] \in {"fetching", "ready", "locked", "updated"}}

\* C12: per-pool concurrency caps.  In every state at most 10 category fetches are
\* in flight, and of each category at most 10 product tasks are in flight,
\* however many links the root page and the category page hold.
PoolCaps ==
    /\ Cardinality(SubInFlight) <= 10
    /\ \A c \in Cats : Cardinality(ProductInFlight(c)) <= 10

\* C12's case: the category page held 11 product links; 10 of its product tasks
\* are in flight and the eleventh is queued behind them.
PoolCapsWitness ==
    \E c \in Cats :
        /\ Len(product[c]) = 11
        /\ Cardinality(ProductInFlight(c)) = 10
        /\ product[c][11] = "queued"

\* The HTTP fetches in flight: of category pages and of product pages
SubFetching == {c \in Cats : sub[c] = "running"}
ProductFetching == {t \in Tasks : Status(t) = "fetching"}

\* C20: global in-flight bound.  At most 10 category fetches and at most 10
\* product fetches are in flight, at most 20 fetches in all: a category has
\* product futures only once its completed fetch was handed out, and the product
\* fetches in flight are all of the one category whose pool the coordinator has
\* open.
GlobalInFlightBound ==
    /\ Cardinality(SubFetching) <= 10
    /\ Cardinality(ProductFetching) <= 10
    /\ Cardinality(SubFetching) + Cardinality(ProductFetching) <= 20
    /\ \A c \in Cats : product[c] # <<>> => (sub[c] = "ok" /\ c \in yielded)
    /\ \A t \in ProductFetching : pc = "inner" /\ cur = t[1]

\* C20's case: fetches of both levels are in flight, more than 10 in all: the
\* outer pool is full with 10 category fetches while a product page of the
\* category that completed is being fetched.
GlobalInFlightBoundWitness ==
    /\ Cardinality(SubFetching) = 10
    /\ Cardinality(ProductFetching) >= 1

(***************************************************************************)
(* Properties of the sorter (specification SortSpec)                       *)
(***************************************************************************)

\* a <= b for two str
StrLeq(a, b) == a = b \/ StrLess(a, b)

\* C8: sort correctness.  The sorted dict holds exactly the entries of the input,
\* each once, and runs non-decreasing by (cameraFamily, partNumber): of two
\* entries the earlier has the smaller family, or the same family and a part
\* number that is not greater.
SortCorrect ==
    sort_pc = "sorted" =>
        /\ Len(sorted_dict) = Len(part_numbers_data)
        /\ {sorted_dict[i] : i \in 1..Len(sorted_dict)}
               = {part_numbers_data[i] : i \in 1..Len(part_numbers_data)}
        /\ \A i, j \in 1..Len(sorted_dict) : i < j =>
            \/ StrLess(sorted_dict[i].v.cameraFamily, sorted_dict[j].v.cameraFamily)
            \/ /\ sorted_dict[i].v.cameraFamily = sorted_dict[j].v.cameraFamily
               /\ StrLeq(sorted_dict[i].k, sorted_dict[j].k)

\* C8's case: a file of three entries, two of one family, whose order by part
\* number is not its order by family, has been sorted into another order.
SortCorrectWitness ==
    /\ sort_pc = "sorted"
    /\ Len(sorted_dict) = 3
    /\ sorted_dict # part_numbers_data
    /\ sorted_dict[1].v.cameraFamily = sorted_dict[2].v.cameraFamily
    /\ StrLess(sorted_dict[3].k, sorted_dict[1].k)

\* The entries of a dict, their order forgotten
Items(d) == {d[i] : i \in 1..Len(d)}

\* C11: idempotence of the sort.  Sorting the sorted dict again gives the same
\* sequence of (part number, record) pairs; and every dict that holds the entries
\* of the input in another insertion order is sorted into that same sequence.
SortIdempotent ==
    sort_pc = "sorted" =>
        /\ sort_by_family_and_part_number(sorted_dict) = sorted_dict
        /\ \A d \in Contents :
            (Len(d) = Len(part_numbers_data) /\ Items(d) = Items(part_numbers_data)) =>
                /\ sort_by_family_and_part_number(d) = sorted_dict
                /\ sort_by_family_and_part_number(sort_by_family_and_part_number(d))
                       = sorted_dict

\* C11's case: a file whose three entries are of one family and stand in
\* descending order of part number has been sorted, so that each of its six
\* insertion orders must give the one result.
SortIdempotentWitness ==
    /\ sort_pc = "sorted"
    /\ Len(part_numbers_data) = 3
    /\ \A i \in 1..3 : part_numbers_data[i].v.cameraFamily = <<"x", "i", "B", "-", "6", "4">>
    /\ StrLess(part_numbers_data[3].k, part_numbers_data[2].k)
    /\ StrLess(part_numbers_data[2].k, part_numbers_data[1].k)
    /\ sorted_dict[1] = part_numbers_data[3]

(***************************************************************************)
(* Properties of the extractor (specification ExtractSpec)                 *)
(***************************************************************************)

\* word occurs in text, letter case of text ignored
HasWord(text, word) ==
    \E i \in 0..(Len(text) - Len(word)) :
        \A j \in 1..Len(word) : LowerChar(text[i + j]) = word[j]

\* The page's second pathway names a family of the known set
PageFamilyKnown ==
    /\ Len(pathways) >= 2
    /\ \E f \in KnownFamilies :
        LET tokens == Split(pathways[2])
        IN  tokens # <<>> /\ tokens[Len(tokens)] = f

\* C9: chroma classification.  When a block of a page of a known family ends with
\* a part number and a chroma, both non-empty: a chroma containing "color" puts
\* the part number into the batch as rgb, whatever else it contains; otherwise a
\* chroma containing "monochrome" or "nir" puts it as gray; otherwise the batch
\* is left as it was.
ChromaDecisionList ==
    [][ ( /\ ex_pc = "rows" /\ ex_pc' = "loop"
          /\ PageFamilyKnown
          /\ part_number # None /\ part_number[1] # <<>>
          /\ chroma # None /\ chroma[1] # <<>> ) =>
        IF HasWord(chroma[1], ColorWord)
        THEN /\ part_number[1] \in Keys(temp_part_numbers_data')
             /\ Get(temp_part_numbers_data', part_number[1]).cameraType = "rgb"
        ELSE IF HasWord(chroma[1], MonochromeWord) \/ HasWord(chroma[1], NirWord)
        THEN /\ part_number[1] \in Keys(temp_part_numbers_data')
             /\ Get(temp_part_numbers_data', part_number[1]).cameraType = "gray"
        ELSE temp_part_numbers_data' = temp_part_numbers_data ]_vars

\* C9's case: a block whose chroma contains both "color" and "monochrome" has
\* been stored as rgb, after a block with chroma Polarized left the batch empty.
ChromaDecisionListWitness ==
    /\ ex_pc = "loop"
    /\ ndivs = 2
    /\ chroma = Some(BothText)
    /\ part_number = Some(A1)
    /\ Len(temp_part_numbers_data) = 1
    /\ Get(temp_part_numbers_data, A1).cameraType = "rgb"
    /\ Len(log) = 1 /\ log[1].msg = "Skipping unknown chroma"

\* C10: family filter.  A page whose second pathway does not name a family of the
\* known set, or that has fewer than two pathways, never has a record in its
\* batch, and no step of its task changes the shared dict.
FamilyFilter ==
    /\ [](~PageFamilyKnown => temp_part_numbers_data = <<>>)
    /\ [][~PageFamilyKnown => part_numbers_data' = part_numbers_data]_vars

\* C10's case: a "Sensors" page whose last block holds a part number and a color
\* chroma has been merged.
FamilyFilterWitness ==
    /\ ex_pc = "done"
    /\ Len(pathways) >= 2
    /\ pathways[2] = <<"S", "e", "n", "s", "o", "r", "s">>
    /\ part_number = Some(A1)
    /\ chroma = Some(ColorText)

\* The family a page of a known family names
PageFamily ==
    CHOOSE f \in KnownFamilies :
        LET tokens == Split(pathways[2])
        IN  tokens # <<>> /\ tokens[Len(tokens)] = f

\* The block at hand emits a record: its page is of a known family, its part
\* number and its chroma are non-empty and its chroma names a type
BlockEmits ==
    /\ PageFamilyKnown
    /\ part_number # None /\ part_number[1] # <<>>
    /\ chroma # None /\ chroma[1] # <<>>
    /\ \/ HasWord(chroma[1], ColorWord)
       \/ HasWord(chroma[1], MonochromeWord)
       \/ HasWord(chroma[1], NirWord)

\* The record the block at hand emits
BlockRecord ==
    [cameraType |-> IF HasWord(chroma[1], ColorWord) THEN "rgb" ELSE "gray",
     cameraFamily |-> PageFamily, mosaicWidth |-> 0, mosaicHeight |-> 0]

\* d holds one entry for each of its keys
OneEntryPerKey(d) == \A i, j \in 1..Len(d) : d[i].k = d[j].k => i = j

\* C16: last writer wins.  The batch and the dict hold one entry for each part
\* number.  When a block emits a record, the batch then holds that whole record
\* under the block's part number, whatever an earlier block of the page stored
\* there, and its other entries are as before.  When the page is merged, the dict
\* then holds, for each part number of the batch, the batch's whole record,
\* whatever an earlier page stored there, and its other entries are as before.
LastWriterWins ==
    /\ [](OneEntryPerKey(temp_part_numbers_data) /\ OneEntryPerKey(part_numbers_data))
    /\ [][(ex_pc = "rows" /\ ex_pc' = "loop" /\ BlockEmits) =>
            /\ Keys(temp_part_numbers_data')
                   = Keys(temp_part_numbers_data) \cup {part_number[1]}
            /\ Get(temp_part_numbers_data', part_number[1]) = BlockRecord
            /\ \A k \in Keys(temp_part_numbers_data) \ {part_number[1]} :
                   Get(temp_part_numbers_data', k) = Get(temp_part_numbers_data, k)]_vars
    /\ [][(ex_pc = "loop" /\ ex_pc' = "done") =>
            /\ Keys(part_numbers_data')
                   = Keys(part_numbers_data) \cup Keys(temp_part_numbers_data)
            /\ \A k \in Keys(temp_part_numbers_data) :
                   Get(part_numbers_data', k) = Get(temp_part_numbers_data, k)
            /\ \A k \in Keys(part_numbers_data) \ Keys(temp_part_numbers_data) :
                   Get(part_numbers_data', k) = Get(part_numbers_data, k)]_vars

\* C16's case: the dict held camera A1 as a gray xiX camera; a page of family xiC
\* with two blocks, the last one camera A1 with a color chroma, has been merged,
\* and the dict holds A1 once, as an rgb xiC camera, beside the untouched C3.
LastWriterWinsWitness ==
    /\ ex_pc = "done"
    /\ ndivs = 2
    /\ part_number = Some(A1)
    /\ Len(temp_part_numbers_data) = 1
    /\ Len(part_numbers_data) = 2
    /\ Get(part_numbers_data, A1) = Record("rgb", <<"x", "i", "C">>)
    /\ Get(part_numbers_data, C3) = Record("rgb", <<"x", "i", "X">>)

\* A value the completeness test of the block takes for absent: None or ""
Absent(opt) == opt = None \/ opt[1] = <<>>

\* C17: silent completeness skip.  When a block ends with its part number or its
\* chroma absent, the block stores no record and logs nothing: the batch and the
\* log are as they were before the block.
SilentCompletenessSkip ==
    [][(ex_pc = "rows" /\ ex_pc' = "loop" /\ (Absent(part_number) \/ Absent(chroma))) =>
        /\ temp_part_numbers_data' = temp_part_numbers_data
        /\ log' = log]_vars

\* C18: record extraction never raises.  Whatever the page holds,
\* extract_part_numbers_and_chroma does not end in an exception.
ExtractionNeverRaises == ex_pc # "raised"

====
